---- MODULE Spec2Model ----
(***************************************************************************)
(* A model of spz_rs (src/src/lib.rs): the loader of Niantic .spz Gaussian *)
(* splat files and the per-point decode.                                   *)
(*                                                                         *)
(* Numbers.  An f32 result is kept exactly where the code's arithmetic is  *)
(* exact in f32 (half floats, 24-bit fixed point, scale, SH):              *)
(*     [k |-> "num", s, m, e]   the value s * m * 2^e, s in {1,-1}          *)
(*     [k |-> "inf", s]         signed infinity                            *)
(*     [k |-> "nan"]            NaN                                        *)
(* and as the real number the expression denotes where it is not (f32      *)
(* rounding is not modelled there):                                        *)
(*     [k |-> "rat", n, d]      n / d, d > 0                               *)
(*     [k |-> "sqrt", n, d]     sqrt(n / d), n > 0                         *)
(*     [k |-> "ln", n, d]       ln(n / d), n, d > 0                        *)
(* usize is 64 bits wide: no index or size computed here overflows it.     *)
(***************************************************************************)
EXTENDS Integers, Sequences, FiniteSets, TLC

VARIABLES
    build,      \* the compilation target: overflow checks, byte order
    stream,     \* the decompressed input, a sequence of bytes
    consumed,   \* the bytes the load has taken from the reader
    loaded,     \* the load's Result: none yet, Ok(PackedGaussians) or Err
    call        \* the last call: [op, arg, ret]

vars == <<build, stream, consumed, loaded, call>>

(***************************************************************************)
(* Bounds of the model.                                                    *)
(***************************************************************************)
MaxPoints == 2
MaxStream == 80

(***************************************************************************)
(* Values.                                                                 *)
(***************************************************************************)
Byte == 0..255

NoLoad == [tag |-> "none"]
Pending == [tag |-> "pending"]
Returned(v) == [tag |-> "ok", val |-> v]
Panic(m) == [tag |-> "panic", msg |-> m]

Num(s, m, e) == [k |-> "num", s |-> s, m |-> m, e |-> e]
Inf(s) == [k |-> "inf", s |-> s]
NaN == [k |-> "nan"]
Rat(n, d) == [k |-> "rat", n |-> n, d |-> d]

Abs(x) == IF x < 0 THEN -x ELSE x
SignOf(x) == IF x < 0 THEN -1 ELSE 1

Repeat(x, n) == [j \in 1..n |-> x]

(***************************************************************************)
(* half_to_f32, lib.rs 32-55.  Every product is exact in f32.              *)
(***************************************************************************)
half_to_f32_bias16(h) ==
    LET sgn == (h \div 32768) % 2
        exponent == (h \div 1024) % 32
        mantissa == h % 1024
        sign_mul == IF sgn = 1 THEN -1 ELSE 1
    IN  IF exponent = 0 THEN Num(sign_mul, mantissa, -24)
        ELSE IF exponent = 31
             THEN IF mantissa = 0 THEN Inf(sign_mul) ELSE NaN
             ELSE Num(sign_mul, 1024 + mantissa, exponent - 26)

half_to_f32(h) ==
    LET sgn == (h \div 32768) % 2
        exponent == (h \div 1024) % 32
        mantissa == h % 1024
        sign_mul == IF sgn = 1 THEN -1 ELSE 1
    IN  IF exponent = 0
        THEN \* sign_mul * 2^-14 * mantissa / 1024
             Num(sign_mul, mantissa, -24)
        ELSE IF exponent = 31
             THEN IF mantissa = 0 THEN Inf(sign_mul) ELSE NaN
             ELSE \* sign_mul * 2^(exponent - 15) * (1 + mantissa / 1024)
                  Num(sign_mul, 1024 + mantissa, exponent - 25)

(***************************************************************************)
(* The scalar dequantizers, lib.rs 57-71.                                  *)
(***************************************************************************)
\* x as f32 / 16.0 - 10.0, exact in f32
unquantize_scale(x) == Num(SignOf(x - 160), Abs(x - 160), -4)

\* (x / (1.0 - x)).ln() at x = p / 255: 1.0 / 0.0 is +inf and ln(0.0) is -inf
inv_sigmoid(p) ==
    IF p = 255 THEN Inf(1)
    ELSE IF p = 0 THEN Inf(-1)
    ELSE [k |-> "ln", n |-> p, d |-> 255 - p]

unquantize_alpha(x) == inv_sigmoid(x)

\* ((x as f32) - 128.0) / 128.0, exact in f32
unquantize_sh(x) == Num(SignOf(x - 128), Abs(x - 128), -7)

\* (c / 255.0 - 0.5) / COLOR_SCALE with COLOR_SCALE = 0.15 = 3/20
unquantize_color(c) == Rat(4 * c - 510, 153)

(***************************************************************************)
(* i32 arithmetic of PackedGaussian::unpack, lib.rs 106-111.               *)
(***************************************************************************)
\* `1 << n` on i32: with overflow checks a shift amount of 32 or more panics,
\* without them the amount is taken modulo 32; bit 31 is the sign bit.  The
\* result is given as 1.0 / (that as f32): a signed power of two.
InvShl1(n, b) ==
    IF n >= 32 /\ b.overflow_checks
    THEN Panic("attempt to shift left with overflow")
    ELSE LET sh == n % 32
         IN  Returned(Num(IF sh = 31 THEN -1 ELSE 1, 1, -sh))

\* The i32 whose little-endian bytes are b0 b1 b2 b3 (two's complement).
I32OfBytes(b0, b1, b2, b3) ==
    b0 + 256 * b1 + 65536 * b2 + 16777216 * (IF b3 >= 128 THEN b3 - 256 ELSE b3)

\* fixed32 = p0 | p1 << 8 | p2 << 16, then |= 0xff000000 when bit 23 is set
Fixed32(p0, p1, p2) ==
    LET low == I32OfBytes(p0, p1, p2, 0)
        bit23 == (low \div 8388608) % 2
    IN  I32OfBytes(p0, p1, p2, IF bit23 # 0 THEN 255 ELSE 0)

\* fixed32 as f32 * scale: exact, the sign of a zero product included
MulScale(fixed32, scale) == Num(SignOf(fixed32) * scale.s, Abs(fixed32), scale.e)

(***************************************************************************)
(* f32::sqrt and f32::max as the quaternion decode uses them, lib.rs 123.  *)
(***************************************************************************)
\* sqrt of a negative number is NaN
F32Sqrt(x) ==
    IF x.n < 0 THEN NaN
    ELSE IF x.n = 0 THEN Num(1, 0, 0)
    ELSE [k |-> "sqrt", n |-> x.n, d |-> x.d]

F32MaxZero_propagating(x) == x

\* x.max(0.0) for x a square root or NaN: f32::max returns the other operand
\* when one is NaN, and a square root is never below zero
F32MaxZero(x) == IF x.k = "nan" THEN Num(1, 0, 0) ELSE x

(***************************************************************************)
(* PackedGaussian::unpack, lib.rs 98-138.  Sequences are 1-based: the      *)
(* code's position[j] is self.position[j + 1] here.                        *)
(***************************************************************************)
UnpackPosition(self, uses_float16, scale) ==
    IF uses_float16
    THEN [i \in 1..3 |-> half_to_f32(self.position[(i - 1) * 2 + 1])]
    ELSE [i \in 1..3 |->
            MulScale(Fixed32(self.position[(i - 1) * 3 + 1],
                             self.position[(i - 1) * 3 + 2],
                             self.position[(i - 1) * 3 + 3]), scale)]

UnpackRotation(rotation) ==
    LET xyz == [i \in 1..3 |-> Rat(2 * rotation[i] - 255, 255)]
        sumsq == xyz[1].n * xyz[1].n + xyz[2].n * xyz[2].n + xyz[3].n * xyz[3].n
        w == F32MaxZero(F32Sqrt(Rat(65025 - sumsq, 65025)))
    IN  <<w, xyz[1], xyz[2], xyz[3]>>

PackedGaussian_unpack(self, uses_float16, fractional_bits, b) ==
    LET scale == IF uses_float16 THEN Returned(Num(1, 1, 0))
                 ELSE InvShl1(fractional_bits, b)
    IN  IF scale.tag = "panic" THEN scale
        ELSE Returned([
            position |-> UnpackPosition(self, uses_float16, scale.val),
            rotation |-> UnpackRotation(self.rotation),
            scale |-> [i \in 1..3 |-> unquantize_scale(self.scale[i])],
            color |-> [i \in 1..3 |-> unquantize_color(self.color[i])],
            alpha |-> unquantize_alpha(self.alpha),
            sh_r |-> [i \in 1..15 |-> unquantize_sh(self.sh_r[i])],
            sh_g |-> [i \in 1..15 |-> unquantize_sh(self.sh_g[i])],
            sh_b |-> [i \in 1..15 |-> unquantize_sh(self.sh_b[i])]])

\* PackedGaussian::default(), lib.rs 85-95
DefaultPackedGaussian ==
    [position |-> Repeat(0, 9), rotation |-> Repeat(0, 3), scale |-> Repeat(0, 3),
     color |-> Repeat(0, 3), alpha |-> 0,
     sh_r |-> Repeat(0, 15), sh_g |-> Repeat(0, 15), sh_b |-> Repeat(0, 15)]

(***************************************************************************)
(* dim_for_degree, lib.rs 19-30 (the diagnostic it prints is not modelled).*)
(***************************************************************************)
dim_for_degree(degree) ==
    CASE degree = 0 -> 0
      [] degree = 1 -> 3
      [] degree = 2 -> 8
      [] degree = 3 -> 15
      [] OTHER -> 0

(***************************************************************************)
(* The header, lib.rs 141-164 and 226-230: sixteen bytes (repr(C), no      *)
(* padding) reinterpreted in the target's byte order.                      *)
(***************************************************************************)
MAGIC == 1347635022            \* 0x5053474e
HEADER_SIZE == 16              \* size_of::<PackedGaussiansHeader>()

\* The u32 in bytes s[at+1 .. at+4]; the inputs of the model keep it below 2^31.
U32At(s, at, big_endian) ==
    IF big_endian
    THEN s[at + 4] + 256 * s[at + 3] + 65536 * s[at + 2] + 16777216 * s[at + 1]
    ELSE s[at + 1] + 256 * s[at + 2] + 65536 * s[at + 3] + 16777216 * s[at + 4]

HeaderOfBytes(h, b) ==
    [magic |-> U32At(h, 0, b.big_endian),
     version |-> U32At(h, 4, b.big_endian),
     num_points |-> U32At(h, 8, b.big_endian),
     sh_degree |-> h[13],
     fractional_bits |-> h[14],
     flags |-> h[15],
     reserved |-> h[16]]

(***************************************************************************)
(* io::Read::read_exact on the reader at offset pos, for n bytes: the      *)
(* bytes, or UnexpectedEof once the stream ends first (the reader is then  *)
(* at its end).                                                            *)
(***************************************************************************)
Err(kind, msg) == [tag |-> "Err", kind |-> kind, msg |-> msg]

read_exact_zero_fill(s, pos, n) ==
    [ok |-> TRUE,
     data |-> [j \in 1..n |-> IF pos + j <= Len(s) THEN s[pos + j] ELSE 0],
     pos |-> IF pos + n <= Len(s) THEN pos + n ELSE Len(s)]

read_exact(s, pos, n) ==
    IF pos + n <= Len(s)
    THEN [ok |-> TRUE, data |-> SubSeq(s, pos + 1, pos + n), pos |-> pos + n]
    ELSE [ok |-> FALSE, data |-> << >>, pos |-> Len(s)]

Eof == Err("UnexpectedEof", "failed to fill whole buffer")

(***************************************************************************)
(* load_packed_gaussians_from_decompressed_buffer, lib.rs 225-265.         *)
(***************************************************************************)
\* the vec![0; ...] lengths of lines 249-254
BufferLen(field, num_points, sh_dim, uses_float16) ==
    CASE field = "positions" -> num_points * 3 * (IF uses_float16 THEN 2 ELSE 3)
      [] field = "scales" -> num_points * 3
      [] field = "rotations" -> num_points * 3
      [] field = "alphas" -> num_points
      [] field = "colors" -> num_points * 3
      [] field = "sh" -> num_points * sh_dim * 3

ReadOrder_scales_before_colors ==
    <<"positions", "alphas", "scales", "colors", "rotations", "sh">>

\* the order of the read_exact calls of lines 257-262
ReadOrder == <<"positions", "alphas", "colors", "scales", "rotations", "sh">>

\* The reads of lines 257-262 from the k-th on: each fills its buffer or ends
\* the load with the reader's error.
RECURSIVE ReadBuffers(_, _, _, _)
ReadBuffers(s, pos, result, k) ==
    IF k > Len(ReadOrder)
    THEN [result |-> [tag |-> "Ok", value |-> result], consumed |-> pos]
    ELSE LET field == ReadOrder[k]
             r == read_exact(s, pos, Len(result[field]))
         IN  IF ~r.ok THEN [result |-> Eof, consumed |-> r.pos]
             ELSE ReadBuffers(s, r.pos, [result EXCEPT ![field] = r.data], k + 1)

VersionUnsupported_upper_only(version) == version > 2

\* header.version < 1 || header.version > 2
VersionUnsupported(version) == version < 1 \/ version > 2

Load(s, b) ==
    LET h == read_exact(s, 0, HEADER_SIZE)
        header == HeaderOfBytes(h.data, b)
        num_points == header.num_points
        sh_dim == dim_for_degree(header.sh_degree)
        uses_float16 == header.version = 1
        result ==
            [num_points |-> num_points,
             sh_degree |-> header.sh_degree,
             fractional_bits |-> header.fractional_bits,
             antialiased |-> header.flags % 2 # 0,   \* flags & FLAG_ANTIALIASED
             positions |-> Repeat(0, BufferLen("positions", num_points, sh_dim, uses_float16)),
             scales |-> Repeat(0, BufferLen("scales", num_points, sh_dim, uses_float16)),
             rotations |-> Repeat(0, BufferLen("rotations", num_points, sh_dim, uses_float16)),
             alphas |-> Repeat(0, BufferLen("alphas", num_points, sh_dim, uses_float16)),
             colors |-> Repeat(0, BufferLen("colors", num_points, sh_dim, uses_float16)),
             sh |-> Repeat(0, BufferLen("sh", num_points, sh_dim, uses_float16))]
    IN  IF ~h.ok THEN [result |-> Eof, consumed |-> h.pos]
        ELSE IF header.magic # MAGIC
        THEN [result |-> Err("InvalidData", "Header not found"), consumed |-> h.pos]
        ELSE IF VersionUnsupported(header.version)
        THEN [result |-> Err("InvalidData", "Unsupported version"), consumed |-> h.pos]
        ELSE ReadBuffers(s, h.pos, result, 1)

(***************************************************************************)
(* PackedGaussians, lib.rs 179-223.  Indices are the code's (from 0); the  *)
(* sequences are 1-based.                                                  *)
(***************************************************************************)
uses_float16(pg) == Len(pg.positions) = pg.num_points * 3 * 2

\* &s[from..to]: panics when the range ends beyond the slice
Slice(s, from, to) ==
    IF to > Len(s) THEN Panic("range end index out of range for slice")
    ELSE Returned(SubSeq(s, from + 1, to))

\* s[j]: panics when j is not an index
Index(s, j) ==
    IF j >= Len(s) THEN Panic("index out of bounds") ELSE Returned(s[j + 1])

\* dst.copy_from_slice(src) for dst of length n: panics unless the lengths agree
copy_from_slice(n, src) ==
    IF src.tag = "panic" THEN src
    ELSE IF Len(src.val) # n
    THEN Panic("source slice length does not match destination slice length")
    ELSE src

at(pg, i) ==
    LET position_bits == IF uses_float16(pg) THEN 6 ELSE 9
        start3 == i * 3
        p_start == i * position_bits
        position == copy_from_slice(9, Slice(pg.positions, p_start, p_start + position_bits))
        scale == copy_from_slice(3, Slice(pg.scales, start3, start3 + 3))
        rotation == copy_from_slice(3, Slice(pg.rotations, start3, start3 + 3))
        color == copy_from_slice(3, Slice(pg.colors, start3, start3 + 3))
        alpha == Index(pg.alphas, i)
        sh_dim == dim_for_degree(pg.sh_degree)
        sh_start == i * sh_dim * 3
        sh(c) == [j \in 0..(sh_dim - 1) |-> Index(pg.sh, sh_start + j * 3 + c)]
        channel(c) == [j \in 1..15 |-> IF j - 1 < sh_dim THEN sh(c)[j - 1].val ELSE 128]
        \* the statements in the order they run: the first to panic ends the call
        steps == <<position, scale, rotation, color, alpha>>
        shsteps == {sh(c)[j] : c \in 0..2, j \in 0..(sh_dim - 1)}
    IN  IF \E k \in 1..5 : steps[k].tag = "panic"
        THEN steps[CHOOSE k \in 1..5 :
                     /\ steps[k].tag = "panic"
                     /\ \A l \in 1..(k - 1) : steps[l].tag # "panic"]
        ELSE IF \E r \in shsteps : r.tag = "panic"
        THEN Panic("index out of bounds")
        ELSE Returned([position |-> position.val,
                       rotation |-> rotation.val,
                       scale |-> scale.val,
                       color |-> color.val,
                       alpha |-> alpha.val,
                       sh_r |-> channel(0),
                       sh_g |-> channel(1),
                       sh_b |-> channel(2)])

\* self.at(i).unpack(self.uses_float16(), self.fractional_bits as u32)
PackedGaussians_unpack(pg, i, b) ==
    LET g == at(pg, i)
    IN  IF g.tag = "panic" THEN g
        ELSE PackedGaussian_unpack(g.val, uses_float16(pg), pg.fractional_bits, b)

(***************************************************************************)
(* The program: one load of a decompressed stream, then calls on the       *)
(* PackedGaussians it returned.  (load_packed_gaussians_from_spz_buffer    *)
(* and _from_file, lib.rs 267-278, hand the gunzipped bytes to the same    *)
(* load.)  The streams: a header written in the target's byte order, then  *)
(* bytes that differ from place to place, cut at any length.               *)
(***************************************************************************)
U32Bytes(v, big_endian) ==
    LET le == <<v % 256, (v \div 256) % 256, (v \div 65536) % 256, (v \div 16777216) % 256>>
    IN  IF big_endian THEN <<le[4], le[3], le[2], le[1]>> ELSE le

HeaderBytes(h, big_endian) ==
    U32Bytes(h.magic, big_endian) \o U32Bytes(h.version, big_endian)
    \o U32Bytes(h.num_points, big_endian)
    \o <<h.sh_degree, h.fractional_bits, h.flags, h.reserved>>

Magics == {MAGIC, MAGIC + 1, 1313165136}     \* 1313165136 = 0x4e475350, MAGIC byte-swapped
Versions == {0, 1, 2, 3}
Degrees == {0, 1, 2, 3, 4}
FractionalBits == {12, 31}
Flags == {0, 1}

Headers ==
    [magic : Magics, version : Versions, num_points : 0..MaxPoints,
     sh_degree : Degrees, fractional_bits : FractionalBits, flags : Flags,
     reserved : {0}]

\* both byte orders; no fractional_bits above reaches the overflow check
LoadBuilds == {[overflow_checks |-> TRUE, big_endian |-> be] : be \in BOOLEAN}

BodyByte(j) == (37 * j + 11) % 256
Body == [j \in 1..MaxStream |-> BodyByte(j)]

Init ==
    /\ build \in LoadBuilds
    /\ \E h \in Headers, len \in 0..MaxStream :
         stream = SubSeq(HeaderBytes(h, build.big_endian) \o Body, 1, len)
    /\ consumed = 0
    /\ loaded = NoLoad
    /\ call = [op |-> "none"]

LoadStream ==
    /\ loaded = NoLoad
    /\ LET r == Load(stream, build)
       IN  /\ loaded' = r.result
           /\ consumed' = r.consumed
    /\ UNCHANGED <<build, stream, call>>

UsesFloat16 ==
    /\ loaded.tag = "Ok"
    /\ call' = [op |-> "uses_float16", ret |-> Returned(uses_float16(loaded.value))]
    /\ UNCHANGED <<build, stream, consumed, loaded>>

At(i) ==
    /\ loaded.tag = "Ok"
    /\ call' = [op |-> "at", arg |-> i, ret |-> at(loaded.value, i)]
    /\ UNCHANGED <<build, stream, consumed, loaded>>

Unpack(i) ==
    /\ loaded.tag = "Ok"
    /\ call' = [op |-> "unpack", arg |-> i,
                ret |-> PackedGaussians_unpack(loaded.value, i, build)]
    /\ UNCHANGED <<build, stream, consumed, loaded>>

Next ==
    \/ LoadStream
    \/ UsesFloat16
    \/ \E i \in 0..MaxPoints : At(i)
    \/ \E i \in 0..MaxPoints : Unpack(i)

Spec == Init /\ [][Next]_vars

(***************************************************************************)
(* The half-float decode on its own: every 16-bit input.                   *)
(***************************************************************************)
NoBuild == [overflow_checks |-> FALSE, big_endian |-> FALSE]

InitHalf ==
    /\ build = NoBuild
    /\ stream = << >>
    /\ consumed = 0
    /\ loaded = NoLoad
    /\ \E h \in 0..65535 : call = [op |-> "half_to_f32", arg |-> h, ret |-> Pending]

HalfToF32 ==
    /\ call.op = "half_to_f32"
    /\ call.ret = Pending
    /\ call' = [call EXCEPT !.ret = Returned(half_to_f32(call.arg))]
    /\ UNCHANGED <<build, stream, consumed, loaded>>

NextHalf == HalfToF32

SpecHalf == InitHalf /\ [][NextHalf]_vars

(***************************************************************************)
(* PackedGaussian::unpack on its own (it is public): raw points whose      *)
(* position bytes, rotation bytes or fractional bits vary.                 *)
(***************************************************************************)
Builds == {[overflow_checks |-> oc, big_endian |-> FALSE] : oc \in BOOLEAN}

HalfLow == {0, 1, 255}
HalfHigh == {0, 60, 124, 128}
FixedLow == {0, 1, 255}
FixedMid == {0, 16}
FixedHigh == {0, 127, 128, 255}
RotBytes == {0, 1, 37, 54, 64, 90, 127, 128, 165, 201, 254, 255}

HalfPoints ==
    {[DefaultPackedGaussian EXCEPT
        !.position = <<l[1], h[1], l[2], h[2], l[3], h[3], 0, 0, 0>>,
        !.rotation = <<127, 127, 127>>] :
     l \in [1..3 -> HalfLow], h \in [1..3 -> HalfHigh]}

FixedPoints ==
    {[DefaultPackedGaussian EXCEPT
        !.position = <<b0, b1, b2, b1, b2, b0, b2, b0, b1>>,
        !.rotation = <<127, 127, 127>>] :
     b0 \in FixedLow, b1 \in FixedMid, b2 \in FixedHigh}

RotPoints ==
    {[DefaultPackedGaussian EXCEPT !.rotation = r] : r \in [1..3 -> RotBytes]}

UnpackArgs ==
    {[self |-> g, uses_float16 |-> TRUE, fractional_bits |-> 0] : g \in HalfPoints}
    \cup {[self |-> g, uses_float16 |-> FALSE, fractional_bits |-> fb] :
            g \in FixedPoints, fb \in Byte}
    \cup {[self |-> g, uses_float16 |-> f, fractional_bits |-> 12] :
            g \in RotPoints, f \in BOOLEAN}

InitUnpack ==
    /\ build \in Builds
    /\ stream = << >>
    /\ consumed = 0
    /\ loaded = NoLoad
    /\ \E a \in UnpackArgs :
         call = [op |-> "PackedGaussian::unpack", arg |-> a, ret |-> Pending]

UnpackPacked ==
    /\ call.op = "PackedGaussian::unpack"
    /\ call.ret = Pending
    /\ call' = [call EXCEPT !.ret =
                  PackedGaussian_unpack(call.arg.self, call.arg.uses_float16,
                                        call.arg.fractional_bits, build)]
    /\ UNCHANGED <<build, stream, consumed, loaded>>

NextUnpack == UnpackPacked

SpecUnpack == InitUnpack /\ [][NextUnpack]_vars

(***************************************************************************)
(* The value of a "num" as an odd mantissa and an exponent, zero as <<0,0>>.*)
(***************************************************************************)
RECURSIVE Canon(_, _)
Canon(m, e) ==
    IF m = 0 THEN <<0, 0>>
    ELSE IF m % 2 = 0 THEN Canon(m \div 2, e + 1)
    ELSE <<m, e>>

IsNum(f, s, m, e) == f.k = "num" /\ f.s = s /\ Canon(f.m, f.e) = Canon(m, e)

\* C9: half_to_f32 returns for every 16-bit input, and classifies by exponent
\* (bits 10-14) and mantissa (bits 0-9): exponent 0 gives sign * 2^-14 *
\* mantissa/1024; exponent 31 gives signed infinity for mantissa 0 and NaN
\* otherwise, whatever the sign; any other gives sign * 2^(exponent-15) *
\* (1 + mantissa/1024); so 0x0000 is 0.0, 0x8000 is -0.0, 0x0001 is 2^-24 and
\* 0x3C00 is 1.0.
C9_HalfDecode ==
    (call.op = "half_to_f32" /\ call.ret # Pending) =>
        LET h == call.arg
            negative == h >= 32768
            low15 == IF negative THEN h - 32768 ELSE h
            ex == CHOOSE x \in 0..31 : 1024 * x <= low15 /\ low15 < 1024 * (x + 1)
            ma == low15 - 1024 * ex
            sg == IF negative THEN -1 ELSE 1
            r == call.ret.val
        IN  /\ call.ret.tag = "ok"
            /\ ex = 0 => IsNum(r, sg, ma, -24)
            /\ (ex = 31 /\ ma = 0) => r = Inf(sg)
            /\ (ex = 31 /\ ma # 0) => r = NaN
            /\ (ex \in 1..30) => IsNum(r, sg, 1024 + ma, ex - 15 - 10)
            /\ h = 0 => (r.k = "num" /\ r.s = 1 /\ r.m = 0)
            /\ h = 32768 => (r.k = "num" /\ r.s = -1 /\ r.m = 0)
            /\ h = 1 => IsNum(r, 1, 1, -24)
            /\ h = 15360 => IsNum(r, 1, 1, 0)
            /\ h = 31744 => r = Inf(1)
            /\ h = 64512 => r = Inf(-1)
            /\ h = 32256 => r = NaN

C9_Witness ==
    /\ call.op = "half_to_f32"
    /\ call.arg = 15360
    /\ call.ret = Returned(Num(1, 1024, -10))

UnpackReturned == call.op = "PackedGaussian::unpack" /\ call.ret # Pending

\* C5: with half-float positions, PackedGaussian::unpack decodes axis k from the
\* 16-bit value made of raw position bytes 2k (low) and 2k+1 (high):
\* position[k] = half_to_f32(position[2k] + 256 * position[2k+1]).
C5_HalfPositionTwoBytes ==
    (UnpackReturned /\ call.arg.uses_float16) =>
        /\ call.ret.tag = "ok"
        /\ \A k \in 0..2 :
             call.ret.val.position[k + 1] =
                half_to_f32(call.arg.self.position[2 * k + 1]
                            + 256 * call.arg.self.position[2 * k + 2])

\* C6: with fixed-point positions, for every 3-byte group of axis k and every
\* fractional_bits in 0..255, PackedGaussian::unpack returns position[k] =
\* v * 2^(-fractional_bits), v the little-endian 24-bit two's-complement value
\* of the group: no overflow, no change of sign in the scale factor.
C6_FixedPositionScale ==
    (UnpackReturned /\ ~call.arg.uses_float16) =>
        /\ call.ret.tag = "ok"
        /\ \A k \in 0..2 :
             LET p == call.arg.self.position
                 u == p[3 * k + 1] + 256 * p[3 * k + 2] + 65536 * p[3 * k + 3]
                 v == IF u >= 8388608 THEN u - 16777216 ELSE u
                 r == call.ret.val.position[k + 1]
             IN  /\ r.k = "num"
                 /\ v # 0 => r.s = SignOf(v)
                 /\ Canon(r.m, r.e) = Canon(Abs(v), -call.arg.fractional_bits)

\* C8: for every triple of rotation bytes, the quaternion PackedGaussian::unpack
\* stores is (w, x, y, z) with x, y, z = byte/127.5 - 1 and w = sqrt(max(0, 1 -
\* (x^2 + y^2 + z^2))): w is never NaN, never negative, and is exactly 0
\* whenever x^2 + y^2 + z^2 >= 1, as for bytes (255, 255, 255).
C8_QuaternionW ==
    (UnpackReturned /\ call.ret.tag = "ok") =>
        LET b == call.arg.self.rotation
            q == call.ret.val.rotation
            \* 255^2 * (x^2 + y^2 + z^2)
            ss == (2 * b[1] - 255) * (2 * b[1] - 255)
                  + (2 * b[2] - 255) * (2 * b[2] - 255)
                  + (2 * b[3] - 255) * (2 * b[3] - 255)
            radicand == IF 65025 - ss > 0 THEN 65025 - ss ELSE 0
        IN  /\ \A i \in 1..3 : q[i + 1] = Rat(2 * b[i] - 255, 255)
            /\ q[1].k # "nan"
            /\ q[1].k \in {"num", "sqrt"}
            /\ q[1].k = "num" => (q[1].m = 0 /\ q[1].s = 1)
            /\ q[1].k = "sqrt" => (q[1].n = radicand /\ q[1].d = 65025 /\ radicand > 0)
            /\ ss >= 65025 => q[1] = Num(1, 0, 0)
            /\ b = <<255, 255, 255>> => q[1] = Num(1, 0, 0)

C8_Witness ==
    /\ UnpackReturned
    /\ call.arg.self.rotation = <<255, 255, 255>>
    /\ call.ret.tag = "ok"
    /\ call.ret.val.rotation[1] = Num(1, 0, 0)

(***************************************************************************)
(* The claims about the load and the calls on its result.                  *)
(***************************************************************************)
HeaderRead == Len(stream) >= HEADER_SIZE
Hdr == HeaderOfBytes(stream, build)
HeaderAccepted == HeaderRead /\ Hdr.magic = MAGIC /\ Hdr.version \in {1, 2}

\* the sizes as the format states them
StatedDim(degree) ==
    IF degree = 1 THEN 3 ELSE IF degree = 2 THEN 8 ELSE IF degree = 3 THEN 15 ELSE 0
StatedStride(version) == IF version = 1 THEN 6 ELSE 9
StatedSizes(h) ==
    <<h.num_points * StatedStride(h.version), h.num_points, h.num_points * 3,
      h.num_points * 3, h.num_points * 3, h.num_points * StatedDim(h.sh_degree) * 3>>
RECURSIVE SumTo(_, _)
SumTo(sizes, k) == IF k = 0 THEN 0 ELSE sizes[k] + SumTo(sizes, k - 1)
\* the k-th section of the stream: the bytes after the header and k-1 sections
Section(h, k) ==
    SubSeq(stream, HEADER_SIZE + SumTo(StatedSizes(h), k - 1) + 1,
                   HEADER_SIZE + SumTo(StatedSizes(h), k))

ValidCall(op) ==
    /\ loaded.tag = "Ok"
    /\ call.op = op
    /\ call.arg < loaded.value.num_points

\* C1: for every valid index i of a loaded file, with either position encoding,
\* at(i) and unpack(i) return without a panic, and at(i) returns the slices
\* positions[i*stride .. i*stride+stride] (stride 6 or 9), scales, rotations,
\* colors[3i .. 3i+3] and alphas[i].
C1_AtUnpackTotal ==
    /\ ValidCall("unpack") => call.ret.tag = "ok"
    /\ ValidCall("at") =>
         LET pg == loaded.value
             i == call.arg
             stride == StatedStride(Hdr.version)
         IN  /\ call.ret.tag = "ok"
             /\ SubSeq(call.ret.val.position, 1, stride)
                  = SubSeq(pg.positions, i * stride + 1, i * stride + stride)
             /\ call.ret.val.scale = SubSeq(pg.scales, 3 * i + 1, 3 * i + 3)
             /\ call.ret.val.rotation = SubSeq(pg.rotations, 3 * i + 1, 3 * i + 3)
             /\ call.ret.val.color = SubSeq(pg.colors, 3 * i + 1, 3 * i + 3)
             /\ call.ret.val.alpha = pg.alphas[i + 1]

\* C2: after a successful load the six buffers are the consecutive sections of
\* the stream after the 16-byte header, in the order positions, alphas, colors,
\* scales, rotations, SH, of lengths num_points * (6 if version 1 else 9),
\* num_points, 3 * num_points (three times) and num_points * sh_dim * 3, with
\* sh_dim 0, 3, 8, 15 for sh_degree 0, 1, 2, 3 and 0 for any other.
C2_BufferLayout ==
    loaded.tag = "Ok" =>
        LET pg == loaded.value
        IN  /\ HEADER_SIZE = 16
            /\ pg.num_points = Hdr.num_points
            /\ pg.positions = Section(Hdr, 1)
            /\ pg.alphas = Section(Hdr, 2)
            /\ pg.colors = Section(Hdr, 3)
            /\ pg.scales = Section(Hdr, 4)
            /\ pg.rotations = Section(Hdr, 5)
            /\ pg.sh = Section(Hdr, 6)
            /\ Len(pg.positions) = Hdr.num_points * StatedStride(Hdr.version)
            /\ Len(pg.alphas) = Hdr.num_points
            /\ Len(pg.colors) = Hdr.num_points * 3
            /\ Len(pg.scales) = Hdr.num_points * 3
            /\ Len(pg.rotations) = Hdr.num_points * 3
            /\ Len(pg.sh) = Hdr.num_points * StatedDim(Hdr.sh_degree) * 3

C2_Witness ==
    /\ loaded.tag = "Ok"
    /\ loaded.value.num_points = 1
    /\ Hdr.version = 2
    /\ Hdr.sh_degree = 3
    /\ Len(loaded.value.sh) = 45
    /\ loaded.value.sh = SubSeq(stream, 36, 80)

Truncated == loaded.tag = "Err" /\ loaded.kind = "UnexpectedEof"

\* C3 as stated: for every header and every stream the load takes, after the
\* header, exactly the sum of the six section sizes computed from the header,
\* and a stream that ends before that (in the header or in a section) gives a
\* truncated-stream error and no value.
C3_EveryHeaderConsumesSections ==
    loaded # NoLoad =>
        IF ~HeaderRead THEN Truncated
        ELSE IF Len(stream) < HEADER_SIZE + SumTo(StatedSizes(Hdr), 6) THEN Truncated
        ELSE consumed = HEADER_SIZE + SumTo(StatedSizes(Hdr), 6)

\* C3 amended: for every header that passes the magic and version checks and
\* every stream, a load that succeeds has taken exactly the header and the sum
\* of the six section sizes, and a stream that ends before that, or before the
\* end of the header, gives a truncated-stream error and no value: a load
\* never succeeds on a stream shorter than the header and its six sections.
C3_AcceptedHeaderConsumesSections ==
    loaded # NoLoad =>
        /\ ~HeaderRead => Truncated
        /\ HeaderAccepted =>
             IF Len(stream) < HEADER_SIZE + SumTo(StatedSizes(Hdr), 6)
             THEN Truncated
             ELSE /\ loaded.tag = "Ok"
                  /\ consumed = HEADER_SIZE + SumTo(StatedSizes(Hdr), 6)
        /\ loaded.tag = "Ok" =>
             /\ HeaderAccepted
             /\ Len(stream) >= HEADER_SIZE + SumTo(StatedSizes(Hdr), 6)

C3_Witness ==
    /\ HeaderAccepted
    /\ Hdr.num_points = 2
    /\ Hdr.sh_degree = 1
    /\ Len(stream) = HEADER_SIZE + SumTo(StatedSizes(Hdr), 6) - 1
    /\ Truncated

\* C4: the load fails with the bad-magic error whenever the header's magic is
\* not 0x5053474e, and with the unsupported-version error whenever the version
\* is outside {1, 2} (the magic is checked first); in both cases nothing is
\* read after the header and no value is returned, so a load returns Ok only
\* for a header with the right magic and version 1 or 2.
C4_HeaderValidation ==
    (loaded # NoLoad /\ HeaderRead) =>
        /\ Hdr.magic # 1347635022 =>
             /\ loaded = Err("InvalidData", "Header not found")
             /\ consumed = HEADER_SIZE
        /\ Hdr.version \notin {1, 2} =>
             /\ loaded.tag = "Err"
             /\ loaded.kind = "InvalidData"
             /\ Hdr.magic = 1347635022 => loaded.msg = "Unsupported version"
             /\ consumed = HEADER_SIZE
        /\ loaded.tag = "Ok" => (Hdr.magic = 1347635022 /\ Hdr.version \in {1, 2})

C4_Witness ==
    /\ HeaderRead
    /\ Hdr.magic = MAGIC
    /\ Hdr.version = 0
    /\ Hdr.num_points = 1
    /\ Len(stream) = MaxStream
    /\ loaded = Err("InvalidData", "Unsupported version")

\* What at(i) and unpack(i) are to return of the SH bytes of point i.
SHDeinterleaved(pg, i, g) ==
    LET d == StatedDim(pg.sh_degree)
    IN  \A j \in 0..14 :
          IF j < d
          THEN /\ g.sh_r[j + 1] = pg.sh[i * d * 3 + 3 * j + 1]
               /\ g.sh_g[j + 1] = pg.sh[i * d * 3 + 3 * j + 2]
               /\ g.sh_b[j + 1] = pg.sh[i * d * 3 + 3 * j + 3]
          ELSE g.sh_r[j + 1] = 128 /\ g.sh_g[j + 1] = 128 /\ g.sh_b[j + 1] = 128

SHTailZero(pg, u) ==
    \A j \in StatedDim(pg.sh_degree)..14 :
        \A f \in {u.sh_r[j + 1], u.sh_g[j + 1], u.sh_b[j + 1]} :
            f.k = "num" /\ f.m = 0

\* C7: for every valid index i and every sh_degree, at(i) returns, for each
\* coefficient j < sh_dim, sh_r[j], sh_g[j], sh_b[j] = the bytes at
\* sh[i*sh_dim*3 + 3j], + 3j+1, + 3j+2, and 128 in all three channels for
\* sh_dim <= j < 15, so that unpack(i) returns exactly 0 for every SH
\* coefficient at index >= sh_dim.
C7_SHDeinterleave ==
    /\ ValidCall("at") =>
         (call.ret.tag = "ok" /\ SHDeinterleaved(loaded.value, call.arg, call.ret.val))
    /\ ValidCall("unpack") =>
         (call.ret.tag = "ok" /\ SHTailZero(loaded.value, call.ret.val))

\* The same of the calls that return (those on version 2 files).
SHDeinterleaveWhereReturned ==
    /\ (ValidCall("at") /\ call.ret.tag = "ok") =>
         SHDeinterleaved(loaded.value, call.arg, call.ret.val)
    /\ (ValidCall("unpack") /\ call.ret.tag = "ok") =>
         SHTailZero(loaded.value, call.ret.val)

\* C10: after every successful load, for every num_points, 0 included,
\* uses_float16() is true if and only if the header's version is 1.
C10_UsesFloat16IffVersion1 ==
    (loaded.tag = "Ok" /\ call.op = "uses_float16") =>
        (call.ret.val <=> Hdr.version = 1)

====
